---- MODULE Spec2Model ----
(***************************************************************************)
(* Model of the content-generation backend: prompt templates, the agents   *)
(* that swap them around a call of the generation service, and the         *)
(* services and routes that own the agents.                                *)
(*                                                                         *)
(* Python strings are TLA+ strings.  The long literal defaults of the      *)
(* template classes are abbreviated to short non-empty tags such as        *)
(* "Leadership.tone"; the code only tests them for truthiness, copies      *)
(* them and concatenates them.  None is the string None below.             *)
(***************************************************************************)
EXTENDS Integers, Sequences, FiniteSets, TLC

None == "<None>"

\* Python truthiness of an Optional[str]
Truthy(v) == v # None /\ v # ""

\* Python `a or b` on Optional[str]
PyOr(a, b) == IF Truthy(a) THEN a ELSE b

(***************************************************************************)
(* Template classes                                                        *)
(***************************************************************************)

\* attributes ContentPromptTemplate.__init__ sets on every template
ContentAttrs ==
    {"role_description", "content_objective", "style_guidance",
     "structure_description", "tone", "format_guide", "seo_guidelines",
     "limitations", "additional_instructions"}

\* LinkedInPromptTemplate.__init__ adds engagement_tips
LinkedInAttrs == ContentAttrs \cup {"engagement_tips"}

LinkedInPostStyle ==
    {"Leadership", "Behind the Scenes", "Wins", "CEO Journey", "Hot Takes"}

LinkedInAuthor == {"Pablo", "Aitor", "Default"}

BlogClasses == {"GeneralInterest", "SuccessCase"}

LinkedInClasses == LinkedInPostStyle \cup {"LinkedIn"}

TemplateClasses == LinkedInClasses \cup BlogClasses

\* the parameters of each class's __init__ (inspect.signature without self)
CtorParams(cls) ==
    IF cls = "LinkedIn" THEN LinkedInAttrs \ {"seo_guidelines"}
    ELSE IF cls \in LinkedInPostStyle
         THEN LinkedInAttrs \ {"seo_guidelines", "limitations"}
    ELSE ContentAttrs

\* the default of parameter p of cls.__init__
CtorDefault(cls, p) ==
    IF p = "additional_instructions" /\ cls \in {"LinkedIn", "GeneralInterest"}
    THEN None
    ELSE cls \o "." \o p

\* LinkedInPromptTemplate.__init__: seo_guidelines is not passed to the base
\* class and keeps the base default ""
LinkedInInit(cls, kw) ==
    [cls |-> cls,
     attrs |-> [a \in LinkedInAttrs |->
                  IF a = "seo_guidelines" THEN ""
                  ELSE IF a \in DOMAIN kw THEN kw[a]
                  ELSE CtorDefault("LinkedIn", a)]]

\* cls(**kw): the object the constructor builds.  A style class forwards its
\* eight parameters to LinkedInPromptTemplate.__init__ and never passes
\* limitations, which therefore takes the LinkedIn default.
Construct(cls, kw) ==
    IF cls = "LinkedIn" THEN LinkedInInit(cls, kw)
    ELSE IF cls \in LinkedInPostStyle
    THEN LinkedInInit(cls, [p \in CtorParams(cls) |->
                              IF p \in DOMAIN kw THEN kw[p]
                              ELSE CtorDefault(cls, p)])
    ELSE [cls |-> cls,
          attrs |-> [a \in ContentAttrs |->
                       IF a \in DOMAIN kw THEN kw[a] ELSE CtorDefault(cls, a)]]

NoArgs == [x \in {} |-> None]

hasattr(t, a) == a \in DOMAIN t.attrs

\* get_prompt_template_for_style: a new instance of the style's class, the
\* base LinkedIn template for a style outside the table
get_prompt_template_for_style(style) ==
    IF style \in LinkedInPostStyle THEN Construct(style, NoArgs)
    ELSE Construct("LinkedIn", NoArgs)

\* get_author_system_prompt: persona instructions, "" without an entry
get_author_system_prompt(author) ==
    IF author = "Pablo" THEN "Emula el estilo de escritura de Pablo"
    ELSE IF author = "Aitor" THEN "Emula el estilo de escritura de Aitor"
    ELSE ""

(***************************************************************************)
(* LinkedInAgent: building the template of one call                        *)
(***************************************************************************)

\* the request attributes generate_post reads as system-prompt overrides
template_attrs ==
    {"role_description", "content_objective", "style_guidance",
     "structure_description", "tone", "format_guide", "engagement_tips",
     "limitations", "additional_instructions"}

\* getattr(request, attr, None)
RequestValue(request, attr) ==
    IF attr \in DOMAIN request.overrides THEN request.overrides[attr] ELSE None

\* the `any([...])` test of generate_post
HasOverrides(request) ==
    \E attr \in template_attrs : RequestValue(request, attr) # None

\* LinkedInAgent._create_template_instance: a new instance of template_class
\* from the attributes of original_template that template_class.__init__
\* accepts, with additional_instructions given by the caller
_create_template_instance(template_class, original_template, additional_instructions) ==
    LET param_mapping ==
            {"role_description", "content_objective", "style_guidance",
             "structure_description", "tone", "format_guide",
             "additional_instructions", "engagement_tips", "limitations"}
        passed == {p \in param_mapping :
                     p \in CtorParams(template_class) /\ hasattr(original_template, p)}
        template_kwargs ==
            [p \in passed |->
               IF p = "additional_instructions" THEN additional_instructions
               ELSE original_template.attrs[p]]
    IN  Construct(template_class, template_kwargs)

\* generate_post lines 191-209: for each attribute the request's value if it
\* is given, else the style template's if it has one
RequestKwargs(request, style_template) ==
    [attr \in {attr \in template_attrs :
                 RequestValue(request, attr) # None \/ hasattr(style_template, attr)}
       |-> IF RequestValue(request, attr) # None
           THEN RequestValue(request, attr)
           ELSE style_template.attrs[attr]]

\* template_kwargs.get('additional_instructions', '')
KwargsInstructions(template_kwargs) ==
    IF "additional_instructions" \in DOMAIN template_kwargs
    THEN template_kwargs["additional_instructions"] ELSE ""

\* generate_post lines 219-223: setattr on custom_template of every attribute
\* of template_kwargs other than additional_instructions that the object has
SetOverrides(custom_template, template_kwargs) ==
    [custom_template EXCEPT
       !.attrs = [a \in DOMAIN @ |->
                    IF a # "additional_instructions" /\ a \in DOMAIN template_kwargs
                    THEN template_kwargs[a] ELSE @[a]]]

\* generate_post, the branch with overrides: the object built by
\* _create_template_instance from the style template, then the setattr loop
CustomTemplate(request, style_template) ==
    LET template_kwargs == RequestKwargs(request, style_template)
    IN  SetOverrides(
            _create_template_instance(style_template.cls, style_template,
                                      KwargsInstructions(template_kwargs)),
            template_kwargs)

\* generate_post lines 173-229: the template installed for the call
StyleOrCustomTemplate(request) ==
    LET style_template == get_prompt_template_for_style(request.estilo)
    IN  IF HasOverrides(request) THEN CustomTemplate(request, style_template)
        ELSE style_template

\* the persona joined to the current instructions whatever these are
AlwaysSeparated(current, author_instructions) ==
    PyOr(current, "") \o "\n\n" \o author_instructions

\* f"{additional_instructions}\n\n{author_instructions}" or the persona alone
CombinedInstructions(current, author_instructions) ==
    LET additional_instructions == PyOr(current, "")
    IN  IF additional_instructions # ""
        THEN additional_instructions \o "\n\n" \o author_instructions
        ELSE author_instructions

\* generate_post lines 240-254: the persona-augmented template, rebuilt by
\* _create_template_instance from the template currently installed
PersonaTemplate(prompt_template, autor) ==
    LET author_instructions == get_author_system_prompt(autor)
    IN  IF Truthy(author_instructions)
        THEN _create_template_instance(
                 prompt_template.cls, prompt_template,
                 CombinedInstructions(prompt_template.attrs["additional_instructions"],
                                      author_instructions))
        ELSE prompt_template

\* LinkedInAgent._get_model_for_author
_get_model_for_author(agent_model, author) ==
    IF author = "Pablo" THEN "ft:gpt-4o-pablo-linkedin-20250320"
    ELSE IF author = "Aitor" THEN "ft:gpt-4o-aitor-linkedin-20250325"
    ELSE agent_model

(***************************************************************************)
(* Blog agents: the system_components merge                                *)
(***************************************************************************)

valid_fields == ContentAttrs

\* the comprehension without its `v is not None` test
ComponentsWithNone(system_components) ==
    [k \in {k \in DOMAIN system_components : k \in valid_fields}
       |-> system_components[k]]

\* {k: v for k, v in system_components.items() if k in valid_fields and v is not None}
filtered_components(system_components) ==
    [k \in {k \in DOMAIN system_components :
              k \in valid_fields /\ system_components[k] # None}
       |-> system_components[k]]

\* generate_content lines 359-375: type(original_template)(**template_args)
TempTemplate(original_template, filtered) ==
    LET template_args ==
            [a \in ContentAttrs |->
               IF a \in DOMAIN filtered THEN filtered[a]
               ELSE IF hasattr(original_template, a) THEN original_template.attrs[a]
               ELSE ""]
    IN  Construct(original_template.cls, template_args)

\* An Optional[Dict] is <<>> for None and <<d>> for the dict d.
\* `if request.system_components:` is false for None and for {}
DictTruthy(o) == o # <<>> /\ DOMAIN o[1] # {}

(***************************************************************************)
(* Rendering: ContentPromptTemplate.get_system_message, the human          *)
(* templates and BaseAgent._get_messages                                   *)
(***************************************************************************)

\* one labelled block of the system message; field names the attribute it
\* renders, label is "" for a block without a heading
Section(field, label, text) == [field |-> field, label |-> label, text |-> text]

OptionalSection(t, field, label) ==
    IF Truthy(t.attrs[field]) THEN <<Section(field, label, t.attrs[field])>> ELSE <<>>

\* ContentPromptTemplate.get_system_message, as the sequence of blocks it
\* concatenates
ContentSystemMessage(t) ==
    <<Section("header", "",
              "Eres un " \o t.attrs["role_description"] \o ".\nTu objetivo es "
                \o t.attrs["content_objective"] \o ".")>>
    \o OptionalSection(t, "tone", "TONO:")
    \o <<Section("structure_description", "ESTRUCTURA:",
                 t.attrs["structure_description"])>>
    \o OptionalSection(t, "format_guide", "FORMATO:")
    \o OptionalSection(t, "limitations", "LIMITACIONES:")
    \o OptionalSection(t, "seo_guidelines", "OPTIMIZACIÓN SEO:")
    \o OptionalSection(t, "style_guidance", "ESTILO:")
    \o OptionalSection(t, "additional_instructions", "")

\* LinkedInPromptTemplate.get_system_message: the base message, then the
\* engagement tips
LinkedInSystemMessage(t) ==
    ContentSystemMessage(t)
    \o (IF hasattr(t, "engagement_tips")
        THEN OptionalSection(t, "engagement_tips", "CONSEJOS DE ENGAGEMENT:")
        ELSE <<>>)

get_system_message(t) ==
    IF t.cls \in LinkedInClasses THEN LinkedInSystemMessage(t)
    ELSE ContentSystemMessage(t)

\* the named placeholders of get_human_template
BlogPlaceholders ==
    {"tema", "palabras_clave_primarias", "palabras_clave_secundarias", "longitud",
     "publico_objetivo", "objetivo", "tono_especifico", "llamada_accion",
     "elementos_evitar", "comentarios_adicionales"}

Placeholders(cls) ==
    IF cls = "GeneralInterest" THEN BlogPlaceholders \cup {"urls_referencia"}
    ELSE IF cls = "SuccessCase" THEN BlogPlaceholders \cup {"informacion_caso_exito"}
    ELSE {"tema", "informacion_adicional"}

\* the keys of the kwargs each agent passes to _call_llm
PromptKwargs(kind) ==
    IF kind = "general_interest"
    THEN {"tema", "palabras_clave_primarias", "palabras_clave_secundarias",
          "longitud", "publico_objetivo", "objetivo", "tono_especifico",
          "llamada_accion", "elementos_evitar", "urls_referencia",
          "comentarios_adicionales"}
    ELSE IF kind = "success_case"
    THEN {"tema", "publico_objetivo", "objetivo", "tono_especifico",
          "llamada_accion", "elementos_evitar", "comentarios_adicionales",
          "informacion_caso_exito"}
    ELSE {"tema", "informacion_adicional"}

\* _get_messages with a lenient formatter that leaves a missing variable blank
RenderNeverRaises(t, kwargs) == FALSE

\* BaseAgent._get_messages: str.format(**kwargs) raises KeyError for a
\* placeholder without a keyword
RenderRaises(t, kwargs) == ~(Placeholders(t.cls) \subseteq kwargs)

(***************************************************************************)
(* Texts.  A text is the sequence of its tokens: words, punctuation marks  *)
(* and whitespace characters, each a string.  The operators below are the  *)
(* str methods the parsers use.  Positions count from 1, and 0 is the -1   *)
(* of str.find.                                                            *)
(***************************************************************************)

Whitespace == {" ", "\n"}

Min(S) == CHOOSE x \in S : \A y \in S : x <= y

\* s[i:j] with 1-based inclusive ends: an end past the text is the end of
\* the text, an empty range the empty text
Slice(s, i, j) ==
    LET last == IF j > Len(s) THEN Len(s) ELSE j
    IN  IF i > last THEN <<>> ELSE SubSeq(s, i, last)

\* s.find(sub, start)
FindFrom(s, sub, start) ==
    LET hits == {i \in start..(Len(s) - Len(sub) + 1) :
                   Slice(s, i, i + Len(sub) - 1) = sub}
    IN  IF hits = {} THEN 0 ELSE Min(hits)

\* s.find(sub)
Find(s, sub) == FindFrom(s, sub, 1)

\* str.lower on one word
LowerWord(w) ==
    CASE w = "T" -> "t"
      [] w = "Tema" -> "tema"
      [] w = "Body" -> "body"
      [] w = "Meta" -> "meta"
      [] w = "Short" -> "short"
      [] w = "SHORT" -> "short"
      [] w = "FULL" -> "full"
      [] w = "TEXT" -> "text"
      [] w = "Primero" -> "primero"
      [] OTHER -> w

\* s.lower()
Lower(s) == [i \in 1..Len(s) |-> LowerWord(s[i])]

\* s.strip()
Strip(s) ==
    LET ink == {i \in 1..Len(s) : s[i] \notin Whitespace}
    IN  IF ink = {} THEN <<>>
        ELSE Slice(s, Min(ink), CHOOSE i \in ink : \A j \in ink : j <= i)

\* s.replace(old, new), old not empty
RECURSIVE Replace(_, _, _)
Replace(s, old, new) ==
    IF Len(s) < Len(old) THEN s
    ELSE IF Slice(s, 1, Len(old)) = old
    THEN new \o Replace(Slice(s, Len(old) + 1, Len(s)), old, new)
    ELSE <<s[1]>> \o Replace(Tail(s), old, new)

\* the positions of s, in increasing order
Positions(s) == [i \in 1..Len(s) |-> i]

\* s.split(sep), sep one token: the list of the pieces between the
\* occurrences of sep
SplitOn(s, sep) ==
    LET at == SelectSeq(Positions(s), LAMBDA i : s[i] = sep)
    IN  [k \in 1..(Len(at) + 1) |->
           Slice(s, IF k = 1 THEN 1 ELSE at[k - 1] + 1,
                    IF k = Len(at) + 1 THEN Len(s) ELSE at[k] - 1)]

\* s.split(sep, 1)
SplitOnce(s, sep) ==
    LET at == Find(s, <<sep>>)
    IN  IF at = 0 THEN <<s>>
        ELSE <<Slice(s, 1, at - 1), Slice(s, at + 1, Len(s))>>

\* s.split(): the maximal runs of tokens without whitespace
PySplit(s) ==
    LET first == SelectSeq(Positions(s),
                           LAMBDA i : s[i] \notin Whitespace
                                      /\ (i = 1 \/ s[i - 1] \in Whitespace))
        last == SelectSeq(Positions(s),
                          LAMBDA i : s[i] \notin Whitespace
                                     /\ (i = Len(s) \/ s[i + 1] \in Whitespace))
    IN  [k \in 1..Len(first) |-> Slice(s, first[k], last[k])]

\* " ".join(words): the join of the first half, a space, the join of the rest
RECURSIVE JoinWords(_)
JoinWords(words) ==
    IF Len(words) = 0 THEN <<>>
    ELSE IF Len(words) = 1 THEN words[1]
    ELSE JoinWords(Slice(words, 1, Len(words) \div 2))
         \o <<" ">>
         \o JoinWords(Slice(words, Len(words) \div 2 + 1, Len(words)))

(***************************************************************************)
(* BlogAgent._parse_blog_response and _parse_success_case_response.  An    *)
(* Optional[str] is <<>> for None and <<s>> for the text s.                *)
(***************************************************************************)

\* lines 95-99: the first line, every "# " of it removed if it has one
Title(response_text) ==
    LET title_match == SplitOn(response_text, "\n")[1]
    IN  IF Find(title_match, <<"#", " ">>) # 0
        THEN Replace(title_match, <<"#", " ">>, <<>>)
        ELSE title_match

\* lines 103-108 / 114-119: the text from the first occurrence of label in
\* the lowered text to the next newline, split once at ":"; <<>> when the
\* label or the newline is missing
LabelParts(response_text, label) ==
    LET match == Find(Lower(response_text), label)
        end_line == IF match = 0 THEN 0 ELSE FindFrom(response_text, <<"\n">>, match)
    IN  IF match = 0 \/ end_line = 0 THEN <<>>
        ELSE SplitOnce(Slice(response_text, match, end_line - 1), ":")

\* lines 102-110
MetaDescription(response_text) ==
    LET parts == LabelParts(response_text, <<"meta", " ", "descripción">>)
    IN  IF Len(parts) > 1 THEN <<Strip(parts[2])>> ELSE <<>>

\* lines 113-122
Keywords(response_text) ==
    LET parts == LabelParts(response_text, <<"palabras", " ", "clave">>)
        keywords_raw == SplitOn(Strip(parts[2]), ",")
    IN  IF Len(parts) > 1
        THEN [k \in 1..Len(keywords_raw) |-> Strip(keywords_raw[k])]
        ELSE <<>>

\* BlogAgent._parse_blog_response for a str: no statement of the try block
\* raises, the except branch does not run
_parse_blog_response(response_text) ==
    [titulo |-> Title(response_text),
     meta_descripcion |-> MetaDescription(response_text),
     palabras_clave |-> Keywords(response_text),
     content |-> response_text]

\* the number of words of the summary built when a marker is missing
SummaryWords == 200

\* words[:n]
Take(seq, n) == Slice(seq, 1, IF Len(seq) < n THEN Len(seq) ELSE n)

\* response_text[:200], the summary of the except branch
CharSummary(response_text) == Take(response_text, SummaryWords)

\* lines 172-173
WordSummary(response_text) == JoinWords(Take(PySplit(response_text), SummaryWords))

\* lines 154-156 and 158-160: the first marker of a role, the second looked
\* for only when the first is absent
MarkerIndex(response_text, first, second) ==
    IF Find(Lower(response_text), first) # 0
    THEN Find(Lower(response_text), first)
    ELSE Find(Lower(response_text), second)

\* lines 197-199: each span lowered, the four labels removed, stripped
RECURSIVE CleanMarkers(_, _)
CleanMarkers(span, markers) ==
    IF markers = <<>> THEN span
    ELSE CleanMarkers(Strip(Replace(Lower(span), markers[1], <<>>)), Tail(markers))

SectionMarkers ==
    <<<<"versión", " ", "corta", ":">>, <<"resumen", " ", "ejecutivo", ":">>,
      <<"versión", " ", "completa", ":">>, <<"versión", " ", "detallada", ":">>>>

\* BlogAgent._parse_success_case_response for a str
_parse_success_case_response(response_text) ==
    LET resumen_idx == MarkerIndex(response_text, <<"versión", " ", "corta">>,
                                   <<"resumen", " ", "ejecutivo">>)
        completo_idx == MarkerIndex(response_text, <<"versión", " ", "completa">>,
                                    <<"versión", " ", "detallada">>)
        first_part == Slice(response_text, 1,
                            (IF resumen_idx < completo_idx THEN resumen_idx
                             ELSE completo_idx) - 1)
        lines == SplitOn(first_part, "\n")
        title_lines == SelectSeq(lines, LAMBDA line : Strip(line) # <<>>)
        resumen == IF resumen_idx < completo_idx
                   THEN Strip(Slice(response_text, resumen_idx, completo_idx - 1))
                   ELSE Strip(Slice(response_text, resumen_idx, Len(response_text)))
        completo == IF resumen_idx < completo_idx
                    THEN Strip(Slice(response_text, completo_idx, Len(response_text)))
                    ELSE Strip(Slice(response_text, completo_idx, resumen_idx - 1))
    IN  IF resumen_idx = 0 \/ completo_idx = 0
        THEN [titulo |-> Title(response_text),
              resumen_corto |-> WordSummary(response_text),
              contenido_completo |-> response_text,
              meta_descripcion |-> <<>>,
              palabras_clave |-> <<>>]
        ELSE [titulo |-> IF title_lines # <<>>
                         THEN Replace(title_lines[1], <<"#", " ">>, <<>>)
                         ELSE <<"Caso", " ", "de", " ", "Éxito">>,
              resumen_corto |-> CleanMarkers(resumen, SectionMarkers),
              contenido_completo |-> CleanMarkers(completo, SectionMarkers),
              meta_descripcion |-> MetaDescription(response_text),
              palabras_clave |-> Keywords(response_text)]

(***************************************************************************)
(* format_content_for_readability, on texts whose tokens are characters    *)
(***************************************************************************)

\* the characters [A-Z] of the texts
Uppercase == {"A"}

\* re.sub(mark + '(?=[A-Z])', mark + ' ', content)
RECURSIVE SpaceBeforeUppercase(_, _)
SpaceBeforeUppercase(content, mark) ==
    IF content = <<>> THEN <<>>
    ELSE IF content[1] = mark /\ Len(content) > 1 /\ content[2] \in Uppercase
    THEN <<mark, " ">> \o SpaceBeforeUppercase(Tail(content), mark)
    ELSE <<content[1]>> \o SpaceBeforeUppercase(Tail(content), mark)

\* a replacement of each pair of whitespace characters by one space
RECURSIVE CollapsePairs(_)
CollapsePairs(content) ==
    IF content = <<>> THEN <<>>
    ELSE IF Len(content) > 1 /\ content[1] \in Whitespace /\ content[2] \in Whitespace
    THEN <<" ">> \o CollapsePairs(Tail(Tail(content)))
    ELSE <<content[1]>> \o CollapsePairs(Tail(content))

\* re.sub(r'\s+', ' ', content)
RECURSIVE CollapseWhitespace(_)
CollapseWhitespace(content) ==
    IF content = <<>> THEN <<>>
    ELSE IF content[1] \in Whitespace
    THEN IF Len(content) > 1 /\ content[2] \in Whitespace
         THEN CollapseWhitespace(Tail(content))
         ELSE <<" ">> \o CollapseWhitespace(Tail(content))
    ELSE <<content[1]>> \o CollapseWhitespace(Tail(content))

\* the length of the run of newlines content starts with
RECURSIVE NewlineRun(_)
NewlineRun(content) ==
    IF content # <<>> /\ content[1] = "\n" THEN 1 + NewlineRun(Tail(content)) ELSE 0

\* re.sub(r'\n{3,}', '\n\n', content)
RECURSIVE CollapseNewlines(_)
CollapseNewlines(content) ==
    IF content = <<>> THEN <<>>
    ELSE IF NewlineRun(content) >= 3
    THEN <<"\n", "\n">>
         \o CollapseNewlines(Slice(content, NewlineRun(content) + 1, Len(content)))
    ELSE <<content[1]>> \o CollapseNewlines(Tail(content))

\* format_content_for_readability
format_content_for_readability(content) ==
    Strip(CollapseNewlines(CollapseWhitespace(
        SpaceBeforeUppercase(SpaceBeforeUppercase(content, "."), ","))))

(***************************************************************************)
(* BaseAgent                                                               *)
(***************************************************************************)

OPENAI_MODEL == "gpt-4"
DEFAULT_TEMPERATURE == "0.7"

\* the ChatOpenAI client _initialize_llm builds from the agent's settings
_initialize_llm(model, temperature) == [model |-> model, temperature |-> temperature]

\* BaseAgent.__init__
NewAgent(prompt_template) ==
    [prompt_template |-> prompt_template,
     model |-> OPENAI_MODEL,
     temperature |-> DEFAULT_TEMPERATURE,
     llm |-> _initialize_llm(OPENAI_MODEL, DEFAULT_TEMPERATURE)]

\* BaseAgent.update_model_settings.  client_ok = FALSE is the run in which
\* _initialize_llm raises: the fields are already assigned, the client is not
\* replaced
update_model_settings(agent, model, temperature, client_ok) ==
    LET m == IF Truthy(model) THEN model ELSE agent.model
        t == IF temperature # None THEN temperature ELSE agent.temperature
    IN  [agent EXCEPT !.model = m, !.temperature = t,
                      !.llm = IF client_ok THEN _initialize_llm(m, t) ELSE @]

\* BaseAgent.update_prompt_template
update_prompt_template(agent, new_template) ==
    [agent EXCEPT !.prompt_template = new_template]

\* BlogAgent.update_customization: each field is `request.x or current.x`, the
\* new template is of the class of the current one; the model settings are
\* updated when the request names a model or a temperature
update_customization(agent, request, client_ok) ==
    LET current_prompt_template == agent.prompt_template
        new_template ==
            Construct(current_prompt_template.cls,
                      [a \in ContentAttrs |->
                         PyOr(RequestValue(request, a),
                              current_prompt_template.attrs[a])])
        a1 == update_prompt_template(agent, new_template)
    IN  IF Truthy(request.model) \/ request.temperature # None
        THEN update_model_settings(a1, request.model, request.temperature, client_ok)
        ELSE a1

(***************************************************************************)
(* The server: requests, calls and agents                                  *)
(*                                                                         *)
(* A call is one request being served.  The event loop runs a handler      *)
(* without interruption up to its only suspension point, the await of the  *)
(* generation service inside _call_llm, so a call takes one step from its  *)
(* start to that await (or to the exception that ends it early) and one    *)
(* step from the service's answer to its end.                              *)
(***************************************************************************)

VARIABLES
    agents,     \* agent id -> the agent object's fields
    calls,      \* slot -> the call it is serving
    heap,       \* object id -> the template object with that identity
    held,       \* the id of the object LinkedInAgent.prompt_template refers to
    installs,   \* the template installations done so far, oldest first
    job,        \* a function of the parsers, helpers and lookups being applied
    customized  \* blog variant -> the configuration its last customization gave

vars == <<agents, calls, heap, held, installs, job, customized>>

\* the variables of the object-level view of LinkedInAgent.generate_post
objVars == <<heap, held, installs>>

\* the shared agent of the LinkedInService singleton
LinkedInAgentId == "linkedin"

\* get_blog_service builds a BlogService, hence new agents, for every request:
\* the blog agent of the call in slot s is named s
AgentOf(s, kind) == IF kind = "linkedin" THEN LinkedInAgentId ELSE s

BlogKinds == {"general_interest", "success_case"}

BlogTemplateClass(kind) ==
    IF kind = "general_interest" THEN "GeneralInterest" ELSE "SuccessCase"

NoSnapshot == <<>>

\* The record of a call: pc, the request and the handler's locals
\* (original_template, original_model, use_fine_tuned, in_try: inside the
\* try block that restores the template), the service invocations (invoked,
\* sent), how the call ended (outcome) and the model the response reports.
\* History kept for the properties: entry and gen_entry, the agent's fields
\* when the service method and the agent's generation method were entered;
\* swapped, whether the call replaced the agent's template; llm_template, the
\* template installed when _call_llm was entered; llm_result, how _call_llm
\* ended; raised_at, the statement that raised; response, the body a
\* configuration route returned.

IdleCall ==
    [pc |-> "idle", kind |-> None, request |-> <<>>,
     entry |-> NoSnapshot, gen_entry |-> NoSnapshot,
     original_template |-> <<>>, original_model |-> None,
     use_fine_tuned |-> FALSE, in_try |-> FALSE, swapped |-> FALSE,
     llm_template |-> <<>>, llm_result |-> None,
     invoked |-> 0, sent |-> <<>>, outcome |-> "none", raised_at |-> None,
     model_used |-> None, response |-> <<>>]

\* what _call_llm hands to the generation service: the rendered system
\* message of the installed template and the client the agent holds
Sent(agent) ==
    <<[template |-> agent.prompt_template,
       system_message |-> get_system_message(agent.prompt_template),
       model |-> agent.llm.model,
       temperature |-> agent.llm.temperature]>>

\* a call that ended by raising
Raised(call, error, where) ==
    [call EXCEPT !.pc = "done", !.outcome = error, !.raised_at = where]

\* BaseAgent._call_llm, entered with `agent`: _get_messages raised KeyError,
\* the service was not reached
CallLlmRaised(call, agent) ==
    [call EXCEPT !.llm_template = <<agent.prompt_template>>, !.llm_result = "KeyError"]

\* BaseAgent._call_llm, entered with `agent`: the messages were built and
\* self.llm.ainvoke(messages) is awaited
CallLlmAwaits(call, agent) ==
    [call EXCEPT !.pc = "awaiting", !.llm_template = <<agent.prompt_template>>,
                 !.invoked = @ + 1, !.sent = Sent(agent)]

\* BaseAgent._call_llm resumed: the answer, the service's error or the
\* cancellation of the awaiting task
CallLlmResumed(call, outcome) ==
    [call EXCEPT !.llm_result = IF outcome = "ok" THEN "returned"
                                ELSE IF outcome = "error" THEN "ServiceError"
                                ELSE "Cancelled"]

(***************************************************************************)
(* LinkedInService.generate_post and LinkedInAgent.generate_post up to the *)
(* await.  fault names the update_model_settings call whose client         *)
(* creation raises in this run, "none" if none does.                       *)
(***************************************************************************)
LinkedInStart(a0, request, fault) ==
    LET c0 == [IdleCall EXCEPT !.kind = "linkedin", !.request = request,
                               !.entry = <<a0>>]
        \* LinkedInService.generate_post lines 70-74
        service_update == request.temperature # None \/ request.model # None
        a1 == IF service_update
              THEN update_model_settings(
                       a0, PyOr(request.model, a0.model),
                       IF request.temperature # None THEN request.temperature
                       ELSE a0.temperature,
                       fault # "service_update")
              ELSE a0
        \* LinkedInAgent.generate_post lines 173-229
        c1 == [c0 EXCEPT !.gen_entry = <<a1>>,
                         !.original_template = <<a1.prompt_template>>,
                         !.swapped = TRUE]
        a2 == update_prompt_template(a1, StyleOrCustomTemplate(request))
        \* lines 231-238
        use_fine_tuned == request.autor # "Default"
        c2 == [c1 EXCEPT !.use_fine_tuned = use_fine_tuned,
                         !.original_model = a2.model]
        a3 == IF use_fine_tuned
              THEN update_model_settings(
                       a2, _get_model_for_author(a2.model, request.autor), None,
                       fault # "persona_update")
              ELSE a2
        \* lines 240-254
        a4 == IF use_fine_tuned
              THEN update_prompt_template(
                       a3, PersonaTemplate(a3.prompt_template, request.autor))
              ELSE a3
        \* the finally block, lines 287-291, when _get_messages raises
        a5 == update_prompt_template(a4, c2.original_template[1])
        a6 == IF use_fine_tuned
              THEN update_model_settings(a5, c2.original_model, None, TRUE)
              ELSE a5
    IN  IF fault = "service_update"
        THEN [agent |-> a1, call |-> Raised(c0, "ClientError", "service_update")]
        ELSE IF fault = "persona_update"
        THEN [agent |-> a3, call |-> Raised(c2, "ClientError", "persona_update")]
        ELSE IF RenderRaises(a4.prompt_template, PromptKwargs("linkedin"))
        THEN [agent |-> a6, call |-> Raised(CallLlmRaised(c2, a4), "KeyError", "render")]
        ELSE [agent |-> a4, call |-> [CallLlmAwaits(c2, a4) EXCEPT !.in_try = TRUE]]

\* the faults LinkedInStart can meet with this request
LinkedInFaults(request) ==
    {"none"}
    \cup (IF request.temperature # None \/ request.model # None
          THEN {"service_update"} ELSE {})
    \cup (IF request.autor # "Default" THEN {"persona_update"} ELSE {})

\* LinkedInFinish with the restoring statements after the return instead of
\* in a finally block
LinkedInFinishNoFinally(a, call0, outcome, fault) ==
    LET call == CallLlmResumed(call0, outcome)
        a1 == update_prompt_template(a, call.original_template[1])
        a2 == IF call.use_fine_tuned
              THEN update_model_settings(a1, call.original_model, None,
                                         fault # "restore_update")
              ELSE a1
    IN  IF outcome = "ok"
        THEN [agent |-> a2,
              call |-> IF fault = "restore_update"
                       THEN Raised(call, "ClientError", "restore_update")
                       ELSE [call EXCEPT !.pc = "done", !.outcome = "ok",
                                         !.model_used = a.model]]
        ELSE [agent |-> a,
              call |-> IF outcome = "error"
                       THEN Raised(call, "ServiceError", "service")
                       ELSE Raised(call, "Cancelled", "cancel")]

\* LinkedInAgent.generate_post from the answer of the service to the end:
\* the response is built from the agent's fields, then the finally block
\* restores the template and, for a persona call, the model
LinkedInFinish(a, call0, outcome, fault) ==
    LET call == CallLlmResumed(call0, outcome)
        a1 == update_prompt_template(a, call.original_template[1])
        a2 == IF call.use_fine_tuned
              THEN update_model_settings(a1, call.original_model, None,
                                         fault # "restore_update")
              ELSE a1
        c1 == IF outcome = "ok"
              THEN [call EXCEPT !.pc = "done", !.outcome = "ok",
                                !.model_used = a.model]
              ELSE IF outcome = "error"
              THEN Raised(call, "ServiceError", "service")
              ELSE Raised(call, "Cancelled", "cancel")
    IN  [agent |-> a2,
         call |-> IF fault = "restore_update"
                  THEN Raised(c1, "ClientError", "restore_update")
                  ELSE c1]

(***************************************************************************)
(* GeneralInterestBlogAgent / SuccessCaseBlogAgent.generate_content up to  *)
(* the await, on the agent a0 of the request's BlogService                 *)
(***************************************************************************)
BlogStart(a0, kind, request, fault) ==
    LET c0 == [IdleCall EXCEPT !.kind = kind, !.request = request,
                               !.entry = <<a0>>, !.gen_entry = <<a0>>]
        \* lines 308-312 / 455-459
        a1 == IF Truthy(request.model) \/ request.temperature # None
              THEN update_model_settings(
                       a0, PyOr(request.model, a0.model),
                       IF request.temperature # None THEN request.temperature
                       ELSE a0.temperature,
                       fault # "request_update")
              ELSE a0
        \* lines 339-379 / 484-524
        in_try == DictTruthy(request.system_components)
        filtered == IF in_try THEN filtered_components(request.system_components[1])
                    ELSE NoArgs
        swap == in_try /\ DOMAIN filtered # {}
        c1 == [c0 EXCEPT !.in_try = in_try,
                         !.original_template =
                             IF in_try THEN <<a1.prompt_template>> ELSE <<>>,
                         !.swapped = swap]
        a2 == IF swap
              THEN update_prompt_template(a1, TempTemplate(a1.prompt_template, filtered))
              ELSE a1
        \* the except block, lines 386-390 / 531-535, when _get_messages raises
        a3 == IF in_try THEN update_prompt_template(a2, c1.original_template[1]) ELSE a2
    IN  IF fault = "request_update"
        THEN [agent |-> a1, call |-> Raised(c0, "ClientError", "request_update")]
        ELSE IF RenderRaises(a2.prompt_template, PromptKwargs(kind))
        THEN [agent |-> a3, call |-> Raised(CallLlmRaised(c1, a2), "KeyError", "render")]
        ELSE [agent |-> a2, call |-> CallLlmAwaits(c1, a2)]

BlogFaults(request) ==
    {"none"}
    \cup (IF Truthy(request.model) \/ request.temperature # None
          THEN {"request_update"} ELSE {})

\* BlogFinish with the restore of the except block left out
BlogFinishNoExcept(a, call0, outcome) ==
    LET call == CallLlmResumed(call0, outcome) IN
    [agent |-> IF call.in_try /\ outcome = "ok"
               THEN update_prompt_template(a, call.original_template[1])
               ELSE a,
     call |-> IF outcome = "ok"
              THEN [call EXCEPT !.pc = "done", !.outcome = "ok", !.model_used = a.model]
              ELSE IF outcome = "error"
              THEN Raised(call, "ServiceError", "service")
              ELSE Raised(call, "Cancelled", "cancel")]

\* generate_content from the answer of the service to the end.  Inside the
\* system_components branch the template is restored after a normal return
\* and by `except Exception`; a cancellation raises CancelledError, which is
\* not an Exception, so no handler of generate_content runs
BlogFinish(a, call0, outcome) ==
    LET call == CallLlmResumed(call0, outcome) IN
    [agent |-> IF call.in_try /\ outcome \in {"ok", "error"}
               THEN update_prompt_template(a, call.original_template[1])
               ELSE a,
     call |-> IF outcome = "ok"
              THEN [call EXCEPT !.pc = "done", !.outcome = "ok", !.model_used = a.model]
              ELSE IF outcome = "error"
              THEN Raised(call, "ServiceError", "service")
              ELSE Raised(call, "Cancelled", "cancel")]

(***************************************************************************)
(* Requests                                                                *)
(***************************************************************************)

\* the dicts with at most k keys, keys among fields and values among values
OverrideSets(fields, values, k) ==
    UNION {[D -> values] : D \in {D \in SUBSET fields : Cardinality(D) <= k}}

ReqModels == {None, "gpt-4o-mini"}
ReqTemperatures == {None, "0.2"}

LinkedInRequests(authors, styles, models, temperatures, overrides) ==
    [autor : authors, estilo : styles, model : models,
     temperature : temperatures, overrides : overrides,
     system_components : {<<>>}]

BlogRequests(models, temperatures, components) ==
    [autor : {"Default"}, estilo : {None}, model : models,
     temperature : temperatures, overrides : {NoArgs},
     system_components : components]

Outcomes == {"ok", "error", "cancelled"}

(***************************************************************************)
(* Actions                                                                 *)
(***************************************************************************)

Free(s) == calls[s].pc = "idle"

\* POST /linkedin/generate
StartLinkedIn(s, request, fault) ==
    /\ Free(s)
    /\ fault \in LinkedInFaults(request)
    /\ LET r == LinkedInStart(agents[LinkedInAgentId], request, fault)
       IN  /\ agents' = [agents EXCEPT ![LinkedInAgentId] = r.agent]
           /\ calls' = [calls EXCEPT ![s] = r.call]
    /\ UNCHANGED <<objVars, job, customized>>

\* POST /blog/generate/general-interest and /blog/generate/success-case
StartBlog(s, kind, request, fault) ==
    /\ Free(s)
    /\ fault \in BlogFaults(request)
    /\ LET a0 == NewAgent(Construct(BlogTemplateClass(kind), NoArgs))
           r == BlogStart(a0, kind, request, fault)
       IN  /\ agents' = [x \in DOMAIN agents \cup {s} |->
                           IF x = s THEN r.agent ELSE agents[x]]
           /\ calls' = [calls EXCEPT ![s] = r.call]
    /\ UNCHANGED <<objVars, job, customized>>

\* the generation service answers, fails or the call is cancelled
FinishLinkedIn(s, outcome, fault) ==
    /\ calls[s].pc = "awaiting"
    /\ calls[s].kind = "linkedin"
    /\ fault \in {"none"} \cup (IF calls[s].use_fine_tuned THEN {"restore_update"} ELSE {})
    /\ LET r == LinkedInFinish(agents[LinkedInAgentId], calls[s], outcome, fault)
       IN  /\ agents' = [agents EXCEPT ![LinkedInAgentId] = r.agent]
           /\ calls' = [calls EXCEPT ![s] = r.call]
    /\ UNCHANGED <<objVars, job, customized>>

FinishBlog(s, outcome) ==
    /\ calls[s].pc = "awaiting"
    /\ calls[s].kind # "linkedin"
    /\ LET r == BlogFinish(agents[s], calls[s], outcome)
       IN  /\ agents' = [agents EXCEPT ![s] = r.agent]
           /\ calls' = [calls EXCEPT ![s] = r.call]
    /\ UNCHANGED <<objVars, job, customized>>

\* the route handler returns the response or the HTTP error; the request's
\* BlogService and its agents are dropped with it
Return(s) ==
    /\ calls[s].pc = "done"
    /\ calls' = [calls EXCEPT ![s] = IdleCall]
    /\ agents' = [x \in DOMAIN agents \ {s} |-> agents[x]]
    /\ UNCHANGED <<objVars, job, customized>>

(***************************************************************************)
(* Spec: the server serving one request at a time                          *)
(***************************************************************************)

LifecycleStyles == {"Leadership", "Hot Takes"}

LifecycleOverrides == OverrideSets({"limitations"}, {"custom"}, 1)

LifecycleComponents ==
    {<<>>} \cup {<<d>> : d \in OverrideSets({"tone", "engagement_tips"}, {"custom"}, 1)}

SpecLinkedInRequests ==
    LinkedInRequests(LinkedInAuthor, LifecycleStyles, ReqModels, ReqTemperatures,
                     LifecycleOverrides)

SpecBlogRequests == BlogRequests(ReqModels, ReqTemperatures, LifecycleComponents)

\* no function is being applied
NoJob == [op |-> "none", input |-> <<>>, output |-> <<>>, again |-> <<>>]

\* the server after start-up, apart from job
InitServer(slots) ==
    /\ agents = [x \in {LinkedInAgentId} |-> NewAgent(Construct("LinkedIn", NoArgs))]
    /\ calls = [s \in slots |-> IdleCall]
    /\ heap = [id \in {1} |-> Construct("LinkedIn", NoArgs)]
    /\ held = 1
    /\ installs = <<>>
    /\ customized = [kind \in BlogKinds |-> <<>>]

InitSlots(slots) == InitServer(slots) /\ job = NoJob

Init == InitSlots({"s1"})

\* the requests and the faults of this specification
AnyStartLinkedIn ==
    \E s \in DOMAIN calls, request \in SpecLinkedInRequests,
       fault \in {"none", "service_update", "persona_update"} :
        StartLinkedIn(s, request, fault)

AnyStartBlog ==
    \E s \in DOMAIN calls, kind \in {"general_interest", "success_case"},
       request \in SpecBlogRequests, fault \in {"none", "request_update"} :
        StartBlog(s, kind, request, fault)

AnyFinishLinkedIn ==
    \E s \in DOMAIN calls, outcome \in Outcomes, fault \in {"none", "restore_update"} :
        FinishLinkedIn(s, outcome, fault)

AnyFinishBlog == \E s \in DOMAIN calls, outcome \in Outcomes : FinishBlog(s, outcome)

AnyReturn == \E s \in DOMAIN calls : Return(s)

Next ==
    \/ AnyStartLinkedIn
    \/ AnyStartBlog
    \/ AnyFinishLinkedIn
    \/ AnyFinishBlog
    \/ AnyReturn

Spec == Init /\ [][Next]_vars

(***************************************************************************)
(* SpecOverlap: two requests served concurrently                           *)
(***************************************************************************)

OverlapLinkedInRequests ==
    LinkedInRequests(LinkedInAuthor, {"Leadership"}, {None}, {None}, LifecycleOverrides)

OverlapBlogRequests ==
    BlogRequests({None}, {None},
                 {<<d>> : d \in OverrideSets({"tone"}, {"custom"}, 1)})

InitOverlap == InitSlots({"s1", "s2"})

OverlapStartLinkedIn ==
    \E s \in DOMAIN calls, request \in OverlapLinkedInRequests :
        StartLinkedIn(s, request, "none")

OverlapStartBlog ==
    \E s \in DOMAIN calls, request \in OverlapBlogRequests :
        StartBlog(s, "general_interest", request, "none")

OverlapFinishLinkedIn ==
    \E s \in DOMAIN calls, outcome \in Outcomes : FinishLinkedIn(s, outcome, "none")

NextOverlap ==
    \/ OverlapStartLinkedIn
    \/ OverlapStartBlog
    \/ OverlapFinishLinkedIn
    \/ AnyFinishBlog
    \/ AnyReturn

SpecOverlap == InitOverlap /\ [][NextOverlap]_vars

(***************************************************************************)
(* SpecMerge: one request at a time, every style and author, requests      *)
(* carrying up to MaxOverrides overrides; no model settings, no faults     *)
(***************************************************************************)

MaxOverrides == 2

\* an override of a LinkedInPostRequest is a string, possibly empty; an absent
\* key is the field left at None
MergeOverrides == OverrideSets(template_attrs, {"", "custom"}, MaxOverrides)

\* system_components: None, or a dict whose keys may lie outside valid_fields
\* and whose values may be None or empty
MergeComponents ==
    {<<>>} \cup {<<d>> : d \in OverrideSets(valid_fields \cup {"engagement_tips"},
                                            {None, "", "custom"}, MaxOverrides)}

MergeLinkedInRequests ==
    LinkedInRequests(LinkedInAuthor, LinkedInPostStyle, {None}, {None}, MergeOverrides)

MergeBlogRequests == BlogRequests({None}, {None}, MergeComponents)

MergeStartLinkedIn ==
    \E s \in DOMAIN calls, request \in MergeLinkedInRequests :
        StartLinkedIn(s, request, "none")

MergeStartBlog ==
    \E s \in DOMAIN calls, kind \in {"general_interest", "success_case"},
       request \in MergeBlogRequests :
        StartBlog(s, kind, request, "none")

NextMerge ==
    \/ MergeStartLinkedIn
    \/ MergeStartBlog
    \/ OverlapFinishLinkedIn
    \/ AnyFinishBlog
    \/ AnyReturn

SpecMerge == Init /\ [][NextMerge]_vars

(***************************************************************************)
(* SpecConfig: the blog routes one request at a time: customization,       *)
(* get_prompt_configurations and generation, each served by the            *)
(* BlogService that get_blog_service builds for the request                *)
(***************************************************************************)

\* BlogService.__init__: an agent of each variant with its default template
BlogService ==
    [kind \in BlogKinds |-> NewAgent(Construct(BlogTemplateClass(kind), NoArgs))]

\* the "config" dict the service reports for an agent
AgentConfig(agent) ==
    [attrs |-> [a \in ContentAttrs |-> agent.prompt_template.attrs[a]],
     model |-> agent.model,
     temperature |-> agent.temperature]

\* a BlogPromptCustomizationRequest: the fields left at None are the keys
\* absent from overrides
CustomizationRequests(overrides, models, temperatures) ==
    [autor : {"Default"}, estilo : {None}, model : models,
     temperature : temperatures, overrides : overrides,
     system_components : {<<>>}]

\* POST /blog/config/general-interest and /blog/config/success-case:
\* update_customization on the agent of the request's service, which has no
\* suspension point, then the response with the agent's configuration.  When
\* the client creation of update_model_settings raises, the service reports
\* success False and the route answers HTTP 400.
Customize(s, kind, request, fault) ==
    /\ Free(s)
    /\ fault \in BlogFaults(request)
    /\ LET a0 == BlogService[kind]
           a1 == update_customization(a0, request, fault = "none")
           c0 == [IdleCall EXCEPT !.kind = "customize_" \o kind,
                                  !.request = request, !.pc = "done",
                                  !.entry = <<a0>>, !.gen_entry = <<a0>>]
       IN  /\ agents' = [x \in DOMAIN agents \cup {s} |->
                           IF x = s THEN a1 ELSE agents[x]]
           /\ calls' = [calls EXCEPT ![s] =
                           IF fault = "none"
                           THEN [c0 EXCEPT !.outcome = "ok",
                                           !.response = <<AgentConfig(a1)>>]
                           ELSE [c0 EXCEPT !.outcome = "HTTP400",
                                           !.raised_at = "request_update"]]
           /\ customized' = IF fault = "none"
                            THEN [customized EXCEPT ![kind] = <<AgentConfig(a1)>>]
                            ELSE customized
    /\ UNCHANGED <<objVars, job>>

\* GET /blog/config: the configuration of both agents of the request's service
GetConfigurations(s) ==
    /\ Free(s)
    /\ calls' = [calls EXCEPT ![s] =
                    [IdleCall EXCEPT !.kind = "get_prompt_configurations",
                                     !.pc = "done", !.outcome = "ok",
                                     !.response =
                                         <<[kind \in BlogKinds |->
                                              AgentConfig(BlogService[kind])]>>]]
    /\ UNCHANGED <<agents, objVars, job, customized>>

\* the fields a customization of this specification may name
ConfigFields == {"role_description", "tone", "additional_instructions"}

ConfigRequests ==
    CustomizationRequests(OverrideSets(ConfigFields, {"", "custom"}, MaxOverrides),
                          ReqModels, ReqTemperatures)

ConfigBlogRequests == BlogRequests({None}, {None}, {<<>>})

ConfigCustomize ==
    \E s \in DOMAIN calls, kind \in BlogKinds, request \in ConfigRequests,
       fault \in {"none", "request_update"} :
        Customize(s, kind, request, fault)

ConfigGet == \E s \in DOMAIN calls : GetConfigurations(s)

ConfigStartBlog ==
    \E s \in DOMAIN calls, kind \in BlogKinds, request \in ConfigBlogRequests :
        StartBlog(s, kind, request, "none")

NextConfig ==
    \/ ConfigCustomize
    \/ ConfigGet
    \/ ConfigStartBlog
    \/ AnyFinishBlog
    \/ AnyReturn

SpecConfig == Init /\ [][NextConfig]_vars

(***************************************************************************)
(* SpecObjects: LinkedInAgent.generate_post on objects with identity.      *)
(* A template is an object of the heap; get_prompt_template_for_style and  *)
(* _create_template_instance allocate, setattr writes into the object it   *)
(* is given, update_prompt_template moves the agent's reference.           *)
(***************************************************************************)

MaxInstalls == 2

\* an allocation that hands out the identity of the first object again
ReusedObject(h) == 1

\* the identity of a newly constructed object: one no object of the heap has
NewObject(h) == Cardinality(DOMAIN h) + 1

\* the heap after the object `id` has been given the fields t
Store(h, id, t) == [x \in DOMAIN h \cup {id} |-> IF x = id THEN t ELSE h[x]]

\* generate_post lines 174-229 on the heap h: the style template is
\* constructed; with overrides the custom template is constructed from it and
\* written by the setattr loop.  result is the object handed to
\* update_prompt_template.
MergeOnHeap(h, request) ==
    LET style_template == NewObject(h)
        h1 == Store(h, style_template, get_prompt_template_for_style(request.estilo))
        template_kwargs == RequestKwargs(request, h1[style_template])
        custom_template == NewObject(h1)
        h2 == Store(h1, custom_template,
                    _create_template_instance(h1[style_template].cls, h1[style_template],
                                              KwargsInstructions(template_kwargs)))
        h3 == [h2 EXCEPT ![custom_template] = SetOverrides(@, template_kwargs)]
    IN  IF HasOverrides(request)
        THEN [heap |-> h3, style |-> style_template, result |-> custom_template]
        ELSE [heap |-> h1, style |-> style_template, result |-> style_template]

\* generate_post lines 240-254 on the heap h, the agent holding `current`:
\* the persona template is a new object built from the one installed
PersonaOnHeap(h, current, autor) ==
    LET new_template == NewObject(h)
    IN  IF autor # "Default" /\ Truthy(get_author_system_prompt(autor))
        THEN [heap |-> Store(h, new_template, PersonaTemplate(h[current], autor)),
              result |-> new_template]
        ELSE [heap |-> h, result |-> current]

ObjectsRequests ==
    LinkedInRequests({"Default", "Pablo"}, LifecycleStyles, {None}, {None},
                     OverrideSets({"tone", "limitations", "additional_instructions"},
                                  {"custom"}, 1))

\* generate_post lines 174-254: the effective template is built and installed.
\* The entry of installs keeps the request, the heap as it was before, the
\* object the agent held (original_template) and the objects built.
InstallTemplate(request) ==
    /\ Len(installs) < MaxInstalls
    /\ LET m == MergeOnHeap(heap, request)
           p == PersonaOnHeap(m.heap, m.result, request.autor)
       IN  /\ heap' = p.heap
           /\ held' = p.result
           /\ installs' = Append(installs,
                                 [request |-> request, before |-> heap,
                                  original_template |-> held, style |-> m.style,
                                  merged |-> m.result, installed |-> p.result])
    /\ UNCHANGED <<agents, calls, job, customized>>

\* generate_post line 289: the agent refers to original_template again
RestoreTemplate ==
    /\ installs # <<>>
    /\ held = installs[Len(installs)].installed
    /\ held' = installs[Len(installs)].original_template
    /\ UNCHANGED <<agents, calls, heap, installs, job, customized>>

AnyInstallTemplate == \E request \in ObjectsRequests : InstallTemplate(request)

NextObjects ==
    \/ AnyInstallTemplate
    \/ RestoreTemplate

SpecObjects == Init /\ [][NextObjects]_vars

(***************************************************************************)
(* SpecFunctions: the parsers, format_content_for_readability and the      *)
(* lookups by tag, each applied to one input drawn at the start            *)
(***************************************************************************)

\* BlogService.generate_blog_article: the method the article type selects,
\* ValueError for any other type
generate_blog_article(article_type) ==
    IF article_type = "general_interest"
    THEN [method |-> "generate_general_interest_article", error |-> None]
    ELSE IF article_type = "success_case"
    THEN [method |-> "generate_success_case_article", error |-> None]
    ELSE [method |-> None, error |-> "ValueError"]

\* GeneralInterestBlogAgent.generate_content from the answer of the service
\* to the response, lines 395-414: the text is formatted, the formatted text
\* parsed and the response built from the parsed fields.  On the texts of
\* ParseTexts, where no "." or "," stands before a capital letter, the first
\* two substitutions of the formatter change nothing.
BlogArticleResponse(response_text) ==
    LET formatted == format_content_for_readability(response_text)
        parsed_response == _parse_blog_response(formatted)
    IN  [content |-> parsed_response.content,
         titulo |-> parsed_response.titulo,
         meta_descripcion |-> parsed_response.meta_descripcion,
         palabras_clave |-> parsed_response.palabras_clave]

\* the lines the responses given to the parsers are made of
ParseLines ==
    {<<"#", " ", "T">>,
     <<"Tema", " ", "#", " ", "1">>,
     <<"Meta", " ", "descripción", ":", " ", "Short", " ", "desc">>,
     <<"palabras", " ", "clave", ":", " ", "a", ",", " ", "b">>,
     <<"versión", " ", "corta", ":", " ", "SHORT", " ", "TEXT">>,
     <<"versión", " ", "completa", ":", " ", "FULL", " ", "TEXT">>,
     <<"resumen", " ", "ejecutivo", " ", "a">>,
     <<"versión", " ", "detallada", ":", " ", "b">>,
     <<"Body">>,
     <<>>}

MaxLines == 3

\* "\n".join(lines)
RECURSIVE JoinLines(_)
JoinLines(lines) ==
    IF lines = <<>> THEN <<>>
    ELSE IF Len(lines) = 1 THEN lines[1]
    ELSE lines[1] \o <<"\n">> \o JoinLines(Tail(lines))

\* the responses of up to MaxLines lines, with and without a final newline
ParseTexts ==
    {JoinLines(lines) \o trailing :
        lines \in UNION {[1..n -> ParseLines] : n \in 0..MaxLines},
        trailing \in {<<>>, <<"\n">>}}

\* a response of n words, each followed by the separator
LongText(n, separator) ==
    LET word(i) == IF i = 1 THEN "Primero" ELSE IF i = n THEN "ultimo" ELSE "w"
        width == 1 + Len(separator)
    IN  [k \in 1..(n * width) |->
           IF (k - 1) % width = 0 THEN word((k - 1) \div width + 1)
           ELSE separator[(k - 1) % width]]

\* responses around the length at which the summary is cut
LongTexts ==
    {LongText(n, separator) :
        n \in {SummaryWords - 1, SummaryWords, SummaryWords + 1},
        separator \in {<<" ">>, <<"\n">>, <<" ", "\n", " ">>}}

FormatAlphabet == {".", ",", "A", "a", " ", "\n"}

MaxFormatLen == 5

FormatTexts == UNION {[1..n -> FormatAlphabet] : n \in 0..MaxFormatLen}

\* a style outside LinkedInPostStyle, an article type outside the two known
StyleTags == LinkedInPostStyle \cup {"Thought Leadership"}

ArticleTypes == {"general_interest", "success_case", "newsletter"}

Jobs ==
    {[NoJob EXCEPT !.op = op, !.input = text] :
        op \in {"_parse_blog_response"}, text \in ParseTexts}
    \cup {[NoJob EXCEPT !.op = op, !.input = text] :
        op \in {"_parse_success_case_response"}, text \in ParseTexts \cup LongTexts}
    \cup {[NoJob EXCEPT !.op = op, !.input = text] :
        op \in {"generate_content"}, text \in ParseTexts}
    \cup {[NoJob EXCEPT !.op = op, !.input = text] :
        op \in {"format_content_for_readability"}, text \in FormatTexts}
    \cup {[NoJob EXCEPT !.op = op, !.input = <<tag>>] :
        op \in {"get_prompt_template_for_style"}, tag \in StyleTags}
    \cup {[NoJob EXCEPT !.op = op, !.input = <<tag>>] :
        op \in {"generate_blog_article"}, tag \in ArticleTypes}

InitFunctions == InitServer({"s1"}) /\ job \in Jobs

\* the function named op is applied to the input and its result kept
Apply(op, result) ==
    /\ job.op = op
    /\ job.output = <<>>
    /\ job' = [job EXCEPT !.output = <<result>>]
    /\ UNCHANGED <<agents, calls, objVars, customized>>

ParseBlogResponse ==
    Apply("_parse_blog_response", _parse_blog_response(job.input))

ParseSuccessCaseResponse ==
    Apply("_parse_success_case_response", _parse_success_case_response(job.input))

\* the answer of the generation service taken through generate_content
GenerateContent ==
    Apply("generate_content", BlogArticleResponse(job.input))

FormatContent ==
    Apply("format_content_for_readability", format_content_for_readability(job.input))

\* format_content_for_readability applied to its own result
FormatContentAgain ==
    /\ job.op = "format_content_for_readability"
    /\ job.output # <<>>
    /\ job.again = <<>>
    /\ job' = [job EXCEPT !.again = <<format_content_for_readability(job.output[1])>>]
    /\ UNCHANGED <<agents, calls, objVars, customized>>

LookupStyle ==
    Apply("get_prompt_template_for_style",
          [template |-> get_prompt_template_for_style(job.input[1]), error |-> None])

LookupArticleType ==
    Apply("generate_blog_article", generate_blog_article(job.input[1]))

NextFunctions ==
    \/ ParseBlogResponse
    \/ ParseSuccessCaseResponse
    \/ GenerateContent
    \/ FormatContent
    \/ FormatContentAgain
    \/ LookupStyle
    \/ LookupArticleType

SpecFunctions == InitFunctions /\ [][NextFunctions]_vars

(***************************************************************************)
(* Properties                                                              *)
(***************************************************************************)

Slots == DOMAIN calls

Agent(s) == agents[AgentOf(s, calls[s].kind)]

Done(s) == calls[s].pc = "done"

\* the call in slot s left the agent's template as generate_post /
\* generate_content found it
TemplateRestored(s) ==
    Agent(s).prompt_template = calls[s].gen_entry[1].prompt_template

ModelRestored(s) == Agent(s).model = calls[s].gen_entry[1].model

\* C1: a call that swapped the agent's template and whose generation step
\* (_call_llm) returned normally or raised an ordinary error (KeyError from
\* rendering, an error of the generation service) leaves, at its exit, the
\* template the agent held when the generation method was entered.  Under
\* Spec calls do not overlap.
C1_TemplateRestoredAfterCallLlm ==
    \A s \in Slots :
        (Done(s) /\ calls[s].swapped
           /\ calls[s].llm_result \in {"returned", "KeyError", "ServiceError"})
        => TemplateRestored(s)

\* a blog call with system_components whose service call failed after the
\* temporary template had been sent, and whose template is back
C1_Witness ==
    \E s \in Slots :
        /\ Done(s) /\ calls[s].swapped /\ calls[s].kind = "general_interest"
        /\ calls[s].llm_result = "ServiceError"
        /\ calls[s].sent[1].template # calls[s].gen_entry[1].prompt_template
        /\ TemplateRestored(s)

\* C2: in LinkedInAgent.generate_post a failure raised after the style or
\* custom template was installed and before the generation step starts (the
\* client creation of update_model_settings for the persona's model) still
\* leaves prompt_template and model as they were on entry.
C2_RestoredWhenPersonaUpdateRaises ==
    \A s \in Slots :
        (Done(s) /\ calls[s].raised_at = "persona_update")
        => (TemplateRestored(s) /\ ModelRestored(s))

\* C3: a call cancelled while it awaits the generation service has its
\* swapped template and, for a persona call, its swapped model restored.
C3_RestoredWhenCancelled ==
    \A s \in Slots :
        (Done(s) /\ calls[s].llm_result = "Cancelled" /\ calls[s].swapped)
        => (TemplateRestored(s) /\ (calls[s].use_fine_tuned => ModelRestored(s)))

\* C4: after a generation call has completed, normally or not, the agent's
\* model and temperature are those it had when the service method was entered.
C4_ModelSettingsUnchangedByCall ==
    \A s \in Slots :
        Done(s) => /\ Agent(s).model = calls[s].entry[1].model
                   /\ Agent(s).temperature = calls[s].entry[1].temperature

\* the call in slot s is between its swap and its restore
InFlight(s) == calls[s].pc = "awaiting"

\* C5: no two calls are in flight on the same agent at the same time.
C5_AtMostOneInFlightPerAgent ==
    \A s1, s2 \in Slots :
        (s1 # s2 /\ InFlight(s1) /\ InFlight(s2))
        => AgentOf(s1, calls[s1].kind) # AgentOf(s2, calls[s2].kind)

\* C6: a call whose _call_llm was entered with a template having a
\* placeholder that the call's keyword arguments do not supply has failed
\* with that error propagated and has not invoked the generation service.
C6_RenderErrorBeforeInvocation ==
    \A s \in Slots :
        (calls[s].llm_template # <<>>
           /\ ~(Placeholders(calls[s].llm_template[1].cls) \subseteq PromptKwargs(calls[s].kind)))
        => (Done(s) /\ calls[s].outcome = "KeyError" /\ calls[s].invoked = 0
              /\ calls[s].sent = <<>>)

\* a success-case call: its template asks for palabras_clave_primarias, which
\* the agent does not pass
C6_Witness ==
    \E s \in Slots :
        /\ Done(s) /\ calls[s].llm_template # <<>>
        /\ "palabras_clave_primarias" \in Placeholders(calls[s].llm_template[1].cls)
        /\ "palabras_clave_primarias" \notin PromptKwargs(calls[s].kind)
        /\ calls[s].outcome = "KeyError" /\ calls[s].invoked = 0

\* the template _call_llm rendered in the call of slot s
Effective(s) == calls[s].llm_template[1]

\* C7: in a blog call with system_components the template used for the call
\* has, for each of the nine declared fields, the system_components value
\* when that is present and not None and the agent's current value otherwise;
\* it has no other field, whatever keys the request carried; it is of the
\* class of the agent's current template; the merge did not raise.
C7_ComponentsMergedOverCurrent ==
    \A s \in Slots :
        (calls[s].kind \in {"general_interest", "success_case"}
           /\ DictTruthy(calls[s].request.system_components))
        => LET components == calls[s].request.system_components[1]
               current == calls[s].gen_entry[1].prompt_template
           IN  /\ calls[s].llm_template # <<>>
               /\ Effective(s).cls = current.cls
               /\ DOMAIN Effective(s).attrs = valid_fields
               /\ \A f \in valid_fields :
                      Effective(s).attrs[f] =
                          IF f \in DOMAIN components /\ components[f] # None
                          THEN components[f]
                          ELSE current.attrs[f]

\* a general-interest call whose system_components give tone and a key that
\* is not a declared field: the call went on with tone replaced
C7_Witness ==
    \E s \in Slots :
        /\ calls[s].kind = "general_interest" /\ calls[s].pc = "awaiting"
        /\ DictTruthy(calls[s].request.system_components)
        /\ DOMAIN calls[s].request.system_components[1] = {"tone", "engagement_tips"}
        /\ calls[s].request.system_components[1]["tone"] = "custom"
        /\ calls[s].sent[1].template.attrs["tone"] = "custom"
        /\ calls[s].sent[1].template.attrs["limitations"] = "GeneralInterest.limitations"
        /\ calls[s].sent[1].template # calls[s].gen_entry[1].prompt_template

\* the value field attr must have in the template rendered for request
ExpectedLinkedInField(request, attr) ==
    LET chosen == IF RequestValue(request, attr) # None
                  THEN RequestValue(request, attr)
                  ELSE get_prompt_template_for_style(request.estilo).attrs[attr]
    IN  IF attr = "additional_instructions" /\ request.autor # "Default"
        THEN CombinedInstructions(chosen, get_author_system_prompt(request.autor))
        ELSE chosen

\* C8: in the template rendered for a LinkedIn call every overridden field
\* has the request's value and every other field the style's default, for
\* every style and author; a persona only appends its text to
\* additional_instructions.
C8_OverridesReachRenderedTemplate ==
    \A s \in Slots :
        (calls[s].kind = "linkedin" /\ calls[s].sent # <<>>)
        => \A attr \in template_attrs :
               calls[s].sent[1].template.attrs[attr]
                   = ExpectedLinkedInField(calls[s].request, attr)

\* C9: building the effective template is pure.  Two installations for the
\* same request give templates with equal fields; no object that existed
\* before an installation (the template the agent held among them) has changed
\* since; the style's default record, the object get_prompt_template_for_style
\* returned, still has the style's defaults; the objects built are new ones.
C9_MergeIsPure ==
    \A i \in 1..Len(installs) :
        LET m == installs[i] IN
        /\ \A id \in DOMAIN m.before : id \in DOMAIN heap /\ heap[id] = m.before[id]
        /\ m.style \notin DOMAIN m.before
        /\ m.merged \notin DOMAIN m.before
        /\ m.installed \notin DOMAIN m.before
        /\ m.original_template \in DOMAIN m.before
        /\ heap[m.style] = get_prompt_template_for_style(m.request.estilo)
        /\ \A j \in 1..Len(installs) :
               installs[j].request = m.request
               => /\ heap[installs[j].merged] = heap[m.merged]
                  /\ heap[installs[j].installed] = heap[m.installed]

\* the same request with an override and a persona served twice: two
\* different objects with equal fields, the style object apart from them
C9_Witness ==
    /\ Len(installs) = 2
    /\ installs[1].request = installs[2].request
    /\ HasOverrides(installs[1].request)
    /\ installs[1].request.autor = "Pablo"
    /\ installs[1].installed # installs[2].installed
    /\ heap[installs[1].installed] = heap[installs[2].installed]
    /\ heap[installs[2].merged] # heap[installs[2].style]
    /\ held = installs[1].original_template

\* the place of a section in the fixed order of the system prompt; the SEO
\* guidelines and the engagement tips share the sixth place
SectionRank(field) ==
    CASE field = "header" -> 1
      [] field = "tone" -> 2
      [] field = "structure_description" -> 3
      [] field = "format_guide" -> 4
      [] field = "limitations" -> 5
      [] field \in {"seo_guidelines", "engagement_tips"} -> 6
      [] field = "style_guidance" -> 7
      [] field = "additional_instructions" -> 8

\* C10: the system prompt sent to the service consists of the header, the
\* structure and exactly the non-empty optional sections, in the order header,
\* tone, structure, format, limitations, SEO/engagement guidance, style
\* guidance, additional_instructions; additional_instructions, when not
\* empty, is the last section.  For every template family.
C10_SectionsInFixedOrder ==
    \A s \in Slots :
        calls[s].sent # <<>>
        => LET t == calls[s].sent[1].template
               m == calls[s].sent[1].system_message
           IN  /\ {m[i].field : i \in 1..Len(m)}
                     = {"header", "structure_description"}
                       \cup {f \in DOMAIN t.attrs \ {"role_description", "content_objective"} :
                               Truthy(t.attrs[f])}
               /\ \A i, j \in 1..Len(m) :
                      i < j => SectionRank(m[i].field) < SectionRank(m[j].field)
               /\ Truthy(t.attrs["additional_instructions"])
                      => m[Len(m)].field = "additional_instructions"

\* the function op has been applied to job.input
Applied(op) == job.op = op /\ job.output # <<>>

Contains(s, sub) == Find(s, sub) # 0

\* C11: in dual-section extraction of a text with a marker of each role, the
\* summary is taken from the span of the summary marker and the full body
\* from the span of the full marker, whichever comes first, each with the
\* section's text as written: a response with the lines
\* "versión corta: SHORT TEXT" and "versión completa: FULL TEXT" gives a
\* resumen_corto containing "SHORT TEXT" and a contenido_completo containing
\* "FULL TEXT".
C11_DualSectionsKeepTheirText ==
    (Applied("_parse_success_case_response")
       /\ Contains(job.input, <<"versión", " ", "corta", ":", " ", "SHORT", " ", "TEXT">>)
       /\ Contains(job.input, <<"versión", " ", "completa", ":", " ", "FULL", " ", "TEXT">>))
    => /\ Contains(job.output[1].resumen_corto, <<"SHORT", " ", "TEXT">>)
       /\ Contains(job.output[1].contenido_completo, <<"FULL", " ", "TEXT">>)

\* C12: single-section extraction of the empty string returns the generic
\* title "Artículo de blog", the original text as body, no meta description
\* and no keywords.
C12_EmptyTextGetsFallbackTitle ==
    (Applied("_parse_blog_response") /\ job.input = <<>>)
    => /\ job.output[1].titulo = <<"Artículo", " ", "de", " ", "blog">>
       /\ job.output[1].content = job.input
       /\ job.output[1].meta_descripcion = <<>>
       /\ job.output[1].palabras_clave = <<>>

\* the line of text that holds position pos
LineAt(text, pos) ==
    LET before == {i \in 1..(pos - 1) : text[i] = "\n"}
        after == {i \in pos..Len(text) : text[i] = "\n"}
    IN  Slice(text,
              IF before = {} THEN 1 ELSE (CHOOSE i \in before : \A j \in before : j <= i) + 1,
              IF after = {} THEN Len(text) ELSE Min(after) - 1)

\* the trimmed text after the first ":" of the line on which label first
\* occurs, <<>> when the label is absent or its line has no ":"
LabelRemainder(text, label) ==
    LET at == Find(Lower(text), label)
        line == LineAt(text, at)
    IN  IF at # 0 /\ Contains(line, <<":">>)
        THEN <<Strip(SplitOnce(line, ":")[2])>>
        ELSE <<>>

\* C13: in single-section extraction meta_descripcion is the trimmed text
\* after the first ":" of the line with the label "meta descripción",
\* palabras_clave the trimmed comma-separated items after the ":" of the line
\* with "palabras clave", wherever those lines lie, the last line without a
\* newline included; without the label they are None and the empty list.
C13_LabelledLinesAreExtracted ==
    Applied("_parse_blog_response")
    => LET meta == LabelRemainder(job.input, <<"meta", " ", "descripción">>)
           keys == LabelRemainder(job.input, <<"palabras", " ", "clave">>)
           items == SplitOn(keys[1], ",")
       IN  /\ job.output[1].meta_descripcion = meta
           /\ job.output[1].palabras_clave =
                  IF keys = <<>> THEN <<>>
                  ELSE [k \in 1..Len(items) |-> Strip(items[k])]

\* C14: in single-section extraction the title is the first line without its
\* "# " when the line starts with it, and the first line unchanged otherwise.
C14_TitleDropsOnlyLeadingMarker ==
    Applied("_parse_blog_response")
    => LET first == LineAt(job.input, 1)
       IN  job.output[1].titulo =
               IF Slice(first, 1, 2) = <<"#", " ">>
               THEN Slice(first, 3, Len(first))
               ELSE first

\* a text has no marker of either role
NoRoleMarker(text) ==
    \A marker \in {<<"versión", " ", "corta">>, <<"resumen", " ", "ejecutivo">>,
                   <<"versión", " ", "completa">>, <<"versión", " ", "detallada">>} :
        ~Contains(Lower(text), marker)

\* the positions at which a word of text starts
WordStarts(text) ==
    {i \in 1..Len(text) :
       text[i] \notin Whitespace /\ (i = 1 \/ text[i - 1] \in Whitespace)}

\* text read up to the end of its n-th word, every run of whitespace between
\* two words written as one space and the whitespace at the ends dropped
FirstWords(text, n) ==
    LET starts == WordStarts(text)
        beyond == {i \in starts : Cardinality({j \in starts : j <= i}) > n}
        cut == IF beyond = {} THEN Len(text) ELSE Min(beyond) - 1
        kept(i) == \/ text[i] \notin Whitespace
                   \/ /\ i < cut /\ text[i + 1] \notin Whitespace
                      /\ \E j \in starts : j < i
        indexed == [i \in 1..cut |-> <<i, text[i]>>]
        chosen == SelectSeq(indexed, LAMBDA p : kept(p[1]))
    IN  [k \in 1..Len(chosen) |->
           IF chosen[k][2] \in Whitespace THEN " " ELSE chosen[k][2]]

\* C15: dual-section extraction of a text without a marker of either role
\* gives as resumen_corto the first 200 words of the text joined by single
\* spaces, all of them when there are fewer, and as contenido_completo the
\* whole text.
C15_NoMarkerSummaryIsFirstWords ==
    (Applied("_parse_success_case_response") /\ NoRoleMarker(job.input))
    => /\ job.output[1].resumen_corto = FirstWords(job.input, 200)
       /\ job.output[1].contenido_completo = job.input

\* a response of 201 words separated by more than one whitespace character:
\* the summary has 200 words and ends before the last one
C15_Witness ==
    /\ Applied("_parse_success_case_response")
    /\ NoRoleMarker(job.input)
    /\ Cardinality(WordStarts(job.input)) = 201
    /\ Contains(job.input, <<" ", "\n">>)
    /\ Cardinality(WordStarts(job.output[1].resumen_corto)) = 200
    /\ ~Contains(job.output[1].resumen_corto, <<"ultimo">>)
    /\ job.output[1].contenido_completo = job.input

\* C16: format_content_for_readability applied to its own result returns
\* that result.
C16_FormatIsIdempotent ==
    (job.op = "format_content_for_readability" /\ job.again # <<>>)
    => job.again[1] = job.output[1]

\* a text the first application changed in each of its steps: a space added
\* after a full stop, whitespace collapsed, the ends stripped
C16_Witness ==
    /\ job.op = "format_content_for_readability"
    /\ job.input = <<" ", ".", "A", " ", "\n">>
    /\ job.output = <<<<".", " ", "A">>>>
    /\ job.again = job.output

\* C17: a run of three or more newlines between two paragraphs comes out of
\* format_content_for_readability as exactly two newlines.
C17_ParagraphBreaksSurvive ==
    Applied("format_content_for_readability")
    => \A i \in 1..Len(job.input), j \in 1..Len(job.input) :
           (/\ i + 3 < j
            /\ job.input[i] \notin Whitespace /\ job.input[j] \notin Whitespace
            /\ \A k \in (i + 1)..(j - 1) : job.input[k] = "\n")
           => Contains(job.output[1], <<job.input[i], "\n", "\n", job.input[j]>>)

\* C18: a lookup by tag raises nothing; a style that is not in the table
\* resolves to the base LinkedIn template and an article type that is not
\* known to BlogService.generate_blog_article to a default as well.
C18_LookupNeverFails ==
    /\ Applied("get_prompt_template_for_style")
       => /\ job.output[1].error = None
          /\ (job.input[1] \notin LinkedInPostStyle
                => job.output[1].template = Construct("LinkedIn", NoArgs))
    /\ Applied("generate_blog_article")
       => /\ job.output[1].error = None
          /\ job.output[1].method # None

\* the additional_instructions of the template generate_post installs before
\* the persona step: the request's if given, else the style's
CurrentInstructions(request) ==
    IF RequestValue(request, "additional_instructions") # None
    THEN RequestValue(request, "additional_instructions")
    ELSE get_prompt_template_for_style(request.estilo).attrs["additional_instructions"]

\* the additional_instructions of the template rendered in slot s
RenderedInstructions(s) == calls[s].sent[1].template.attrs["additional_instructions"]

\* C19 as stated: for a non-default author with persona instructions P the
\* rendered additional_instructions are current + separator + P for any value
\* of current; for the default author they are unchanged.
C19_PersonaAppendedToAnyCurrent ==
    \A s \in Slots :
        (calls[s].kind = "linkedin" /\ calls[s].sent # <<>>)
        => LET request == calls[s].request
               P == get_author_system_prompt(request.autor)
           IN  RenderedInstructions(s) =
                   IF request.autor # "Default" /\ P # ""
                   THEN CurrentInstructions(request) \o "\n\n" \o P
                   ELSE CurrentInstructions(request)

\* C19: for a non-default author with persona instructions P the rendered
\* additional_instructions are current + "\n\n" + P when current is not
\* empty and P alone when current is empty or None; for the default author,
\* which has no persona entry, they are unchanged.
C19_PersonaAppendedToNonEmptyCurrent ==
    \A s \in Slots :
        (calls[s].kind = "linkedin" /\ calls[s].sent # <<>>)
        => LET request == calls[s].request
               current == CurrentInstructions(request)
               P == get_author_system_prompt(request.autor)
           IN  RenderedInstructions(s) =
                   IF request.autor # "Default" /\ P # ""
                   THEN IF current = None \/ current = "" THEN P
                        ELSE current \o "\n\n" \o P
                   ELSE current

\* a request for Pablo that overrides additional_instructions with the empty
\* string: the persona text alone is rendered
C19_Witness ==
    \E s \in Slots :
        /\ calls[s].kind = "linkedin" /\ calls[s].sent # <<>>
        /\ calls[s].request.autor = "Pablo"
        /\ RequestValue(calls[s].request, "additional_instructions") = ""
        /\ RenderedInstructions(s) = get_author_system_prompt("Pablo")

RequiredFields ==
    {"role_description", "content_objective", "style_guidance",
     "structure_description"}

\* C21: in every reachable state the template installed on each agent, be it
\* the default or the effective template of a call, has a non-empty
\* role_description, content_objective, style_guidance and
\* structure_description, whatever the overrides of the request, an empty
\* string included.
C21_RequiredFieldsNonEmpty ==
    \A a \in DOMAIN agents :
        \A f \in RequiredFields : Truthy(agents[a].prompt_template.attrs[f])

\* C22: the keyword arguments each agent passes to _call_llm cover every
\* placeholder of the user template of the agent's variant, the success-case
\* variant included: a call that reached _call_llm did not fail at rendering
\* and invoked the generation service.
C22_KwargsCoverPlaceholders ==
    \A s \in Slots :
        calls[s].llm_template # <<>>
        => /\ Placeholders(calls[s].llm_template[1].cls) \subseteq PromptKwargs(calls[s].kind)
           /\ calls[s].llm_result # "KeyError"
           /\ calls[s].invoked = 1

\* no call of LinkedInAgent.generate_post is between its swap and its restore
LinkedInQuiet ==
    \A s \in Slots : ~(calls[s].kind = "linkedin" /\ InFlight(s))

\* C23: once the calls of generate_post on the shared LinkedIn agent have all
\* completed, overlapping ones included and in whatever order they started
\* and ended, the agent's prompt_template and model are those it had before
\* the first of them started, which under SpecOverlap are those the service
\* was built with: no temporary template and no persona model stays installed.
C23_OverlappingCallsRestoreAgent ==
    LinkedInQuiet
    => /\ agents[LinkedInAgentId].prompt_template = Construct("LinkedIn", NoArgs)
       /\ agents[LinkedInAgentId].model = OPENAI_MODEL

\* the model the request of a LinkedIn call asks for: the persona's for a
\* non-default author, else the request's model, else the base model
RequestedModel(request) ==
    IF request.autor # "Default"
    THEN _get_model_for_author(PyOr(request.model, OPENAI_MODEL), request.autor)
    ELSE PyOr(request.model, OPENAI_MODEL)

\* C24: the model with which a LinkedIn call invokes the generation service
\* is determined by the call's own request: a call with the default author
\* is never sent with the fine-tuned model of another call in flight on the
\* same agent.
C24_InvokedModelIsOwnRequests ==
    \A s \in Slots :
        (calls[s].kind = "linkedin" /\ calls[s].sent # <<>>)
        => calls[s].sent[1].model = RequestedModel(calls[s].request)

\* C25: generate_content normalizes the raw output and then parses it, and
\* the normalization keeps the lines the extraction relies on: for an output
\* whose first line is "# T" and which has the lines
\* "Meta descripción: Short desc" and "palabras clave: a, b", the response
\* has titulo "T", meta_descripcion "Short desc" and palabras_clave
\* ["a", "b"].
C25_NormalizedOutputKeepsLines ==
    (/\ Applied("generate_content")
     /\ LineAt(job.input, 1) = <<"#", " ", "T">>
     /\ Contains(job.input, <<"\n", "Meta", " ", "descripción", ":", " ",
                              "Short", " ", "desc">>)
     /\ Contains(job.input, <<"\n", "palabras", " ", "clave", ":", " ",
                              "a", ",", " ", "b">>))
    => /\ job.output[1].titulo = <<"T">>
       /\ job.output[1].meta_descripcion = <<<<"Short", " ", "desc">>>>
       /\ job.output[1].palabras_clave = <<<<"a">>, <<"b">>>>

\* the blog variant a call of a configuration or generation route is about
VariantOf(s) ==
    IF calls[s].kind \in {"general_interest", "customize_general_interest"}
    THEN "general_interest" ELSE "success_case"

\* C26: a blog customization persists: once a customize request has
\* succeeded, a later get_prompt_configurations request reports, and a later
\* generation request starts from, the customized fields, model and
\* temperature of that variant, until another customization replaces them.
C26_CustomizationPersists ==
    \A s \in Slots :
        /\ (calls[s].kind = "get_prompt_configurations" /\ Done(s))
           => \A kind \in BlogKinds :
                  customized[kind] # <<>>
                  => calls[s].response[1][kind] = customized[kind][1]
        /\ (calls[s].kind \in BlogKinds /\ customized[VariantOf(s)] # <<>>)
           => AgentConfig(calls[s].gen_entry[1]) = customized[VariantOf(s)][1]

\* C30: update_customization replaces exactly the fields whose request value
\* is not None, an empty string included, keeps the current value of every
\* other field and installs a template of the class the agent held.
C30_CustomizationReplacesGivenFields ==
    \A s \in Slots :
        (calls[s].kind \in {"customize_general_interest", "customize_success_case"}
           /\ calls[s].outcome = "ok")
        => LET current == calls[s].gen_entry[1].prompt_template
               installed == Agent(s).prompt_template
           IN  /\ installed.cls = current.cls
               /\ \A f \in ContentAttrs :
                      installed.attrs[f] =
                          IF RequestValue(calls[s].request, f) # None
                          THEN RequestValue(calls[s].request, f)
                          ELSE current.attrs[f]

\* where the marker of the summary role and of the full-body role are found
\* in text, 0 for a role without marker
SummaryIndex(text) ==
    MarkerIndex(text, <<"versión", " ", "corta">>, <<"resumen", " ", "ejecutivo">>)

FullIndex(text) ==
    MarkerIndex(text, <<"versión", " ", "completa">>, <<"versión", " ", "detallada">>)

BothMarkers(text) == SummaryIndex(text) # 0 /\ FullIndex(text) # 0

\* C27: dual-section extraction gives the meta_descripcion and the
\* palabras_clave that single-section extraction finds in the full text, in
\* the branch without a marker of some role as in the branch with both: a
\* text without markers that has a line "Meta descripción: Short desc" gives
\* meta_descripcion "Short desc".
C27_DualLabelsAsSingle ==
    Applied("_parse_success_case_response")
    => /\ job.output[1].meta_descripcion = MetaDescription(job.input)
       /\ job.output[1].palabras_clave = Keywords(job.input)

\* the text of a role's section: from its marker to the other marker when
\* that comes later, else to the end, trimmed
SpanFrom(text, from, other) ==
    Strip(Slice(text, from, IF from < other THEN other - 1 ELSE Len(text)))

\* span without the section label it starts with, trimmed; the letters of
\* the label are compared without regard to case
WithoutLeadingLabel(span) ==
    LET leading == {k \in 1..Len(SectionMarkers) :
                      Slice(Lower(span), 1, Len(SectionMarkers[k])) = SectionMarkers[k]}
    IN  IF leading = {} THEN span
        ELSE Strip(Slice(span, Len(SectionMarkers[Min(leading)]) + 1, Len(span)))

\* C28: with a marker of each role, each returned span is the slice of the
\* input for its role with the label at its start removed and the ends
\* trimmed: the rest keeps its characters and their case, a label that
\* occurs later in the span included.
C28_SpansKeepTextAndCase ==
    (Applied("_parse_success_case_response") /\ BothMarkers(job.input))
    => LET resumen_idx == SummaryIndex(job.input)
           completo_idx == FullIndex(job.input)
       IN  /\ job.output[1].resumen_corto =
                  WithoutLeadingLabel(SpanFrom(job.input, resumen_idx, completo_idx))
           /\ job.output[1].contenido_completo =
                  WithoutLeadingLabel(SpanFrom(job.input, completo_idx, resumen_idx))

\* the non-empty lines of text
NonEmptyLines(text) ==
    SelectSeq(SplitOn(text, "\n"), LAMBDA line : Strip(line) # <<>>)

\* line without the "# " it starts with
WithoutLeadingHash(line) ==
    IF Slice(line, 1, 2) = <<"#", " ">> THEN Slice(line, 3, Len(line)) ELSE line

\* C29: the title of dual-section extraction is a non-empty line: the first
\* non-empty line of the whole text when a role has no marker, the first
\* non-empty line of the text before the earlier marker when both have one,
\* without its leading "# "; blank lines before it are skipped.  Stated for
\* the texts in which that part has a non-empty line.
C29_TitleIsFirstNonEmptyLine ==
    Applied("_parse_success_case_response")
    => LET resumen_idx == SummaryIndex(job.input)
           completo_idx == FullIndex(job.input)
           part == IF BothMarkers(job.input)
                   THEN Slice(job.input, 1,
                              (IF resumen_idx < completo_idx THEN resumen_idx
                               ELSE completo_idx) - 1)
                   ELSE job.input
       IN  NonEmptyLines(part) # <<>>
           => /\ job.output[1].titulo # <<>>
              /\ job.output[1].titulo = WithoutLeadingHash(NonEmptyLines(part)[1])

====
